---- MODULE Spec2Model ----
(***************************************************************************)
(* Accept-Charset negotiation of negotiator-rs (src/src/charsets.rs and    *)
(* src/src/lib.rs).  A string is a sequence of one-character strings, so   *)
(* that splitting, the segment grammar, trimming, integer parsing and      *)
(* lower-casing are computed character by character as the code does.      *)
(***************************************************************************)
EXTENDS Integers, Sequences, FiniteSets, TLC

VARIABLES accept, provided, accepts, priorities, result, pick, cmp, pc

vars == <<accept, provided, accepts, priorities, result, pick, cmp, pc>>

\* Option<T>: None is <<>>, Some(x) is <<x>>.
None == <<>>
Some(x) == <<x>>

(***************************************************************************)
(* Bounds of the model and the input pools.                                *)
(***************************************************************************)
\* most comma-separated segments in a header
MaxSegs == 2
\* most elements of the provided list
MaxProvided == 2

Star == <<"*">>
UTF8 == <<"U", "T", "F", "-", "8">>
ISO88591 == <<"I", "S", "O", "-", "8", "8", "5", "9", "-", "1">>
iso88591 == <<"i", "s", "o", "-", "8", "8", "5", "9", "-", "1">>

\* The header segments inputs are built from: "*", "UTF-8", "ISO-8859-1",
\* " UTF-8;q=0", "UTF-8;q=0.8", "", " ", ";q=1", "q=0", "q=2".
SegmentPool ==
    { Star, UTF8, ISO88591,
      <<" ">> \o UTF8 \o <<";", "q", "=", "0">>,
      UTF8 \o <<";", "q", "=", "0", ".", "8">>,
      <<>>,
      <<" ">>,
      <<";", "q", "=", "1">>,
      <<"q", "=", "0">>,
      <<"q", "=", "2">> }

\* The charsets a server may provide.
ProvidedPool == { UTF8, ISO88591, iso88591, Star }

RECURSIVE Join(_)
Join(segs) ==
    IF Len(segs) = 1 THEN segs[1]
    ELSE segs[1] \o <<",">> \o Join(Tail(segs))

SeqsUpTo(S, lo, hi) == UNION { [1..n -> S] : n \in lo..hi }

Headers == { None } \cup { Some(Join(segs)) : segs \in SeqsUpTo(SegmentPool, 1, MaxSegs) }

ProvidedLists == SeqsUpTo(ProvidedPool, 0, MaxProvided)

(***************************************************************************)
(* String primitives of the standard library and the regex crate.          *)
(***************************************************************************)
IsSpace(c) == c \in {" ", "\t", "\n", "\r"}

UpperLetters == <<"A", "B", "C", "D", "E", "F", "G", "H", "I", "J", "K", "L", "M",
                  "N", "O", "P", "Q", "R", "S", "T", "U", "V", "W", "X", "Y", "Z">>
LowerLetters == <<"a", "b", "c", "d", "e", "f", "g", "h", "i", "j", "k", "l", "m",
                  "n", "o", "p", "q", "r", "s", "t", "u", "v", "w", "x", "y", "z">>

LowerChar(c) ==
    IF \E k \in 1..Len(UpperLetters) : UpperLetters[k] = c
    THEN LowerLetters[CHOOSE k \in 1..Len(UpperLetters) : UpperLetters[k] = c]
    ELSE c

\* str::to_lowercase
to_lowercase(s) == [k \in 1..Len(s) |-> LowerChar(s[k])]

\* str::split(char): always at least one piece; "" splits to [""].
RECURSIVE split(_, _)
split(s, sep) ==
    IF \E k \in 1..Len(s) : s[k] = sep
    THEN LET k == CHOOSE k \in 1..Len(s) : s[k] = sep /\ \A j \in 1..(k - 1) : s[j] # sep
         IN  <<SubSeq(s, 1, k - 1)>> \o split(SubSeq(s, k + 1, Len(s)), sep)
    ELSE <<s>>

\* str::trim
RECURSIVE trim(_)
trim(s) ==
    IF s = <<>> THEN s
    ELSE IF IsSpace(s[1]) THEN trim(Tail(s))
    ELSE IF IsSpace(s[Len(s)]) THEN trim(SubSeq(s, 1, Len(s) - 1))
    ELSE s

Digits == <<"0", "1", "2", "3", "4", "5", "6", "7", "8", "9">>
IsDigit(c) == \E k \in 1..Len(Digits) : Digits[k] = c
DigitValue(c) == (CHOOSE k \in 1..Len(Digits) : Digits[k] = c) - 1

RECURSIVE DecimalValue(_)
DecimalValue(ds) ==
    IF ds = <<>> THEN 0
    ELSE DecimalValue(SubSeq(ds, 1, Len(ds) - 1)) * 10 + DigitValue(ds[Len(ds)])

\* str::parse::<isize>: an optional sign, then one or more decimal digits and
\* nothing else.  (The inputs of the model are far inside the isize range.)
parse_isize(s) ==
    LET signed == s # <<>> /\ s[1] \in {"+", "-"}
        ds     == IF signed THEN Tail(s) ELSE s
    IN  IF ds = <<>> \/ \E k \in 1..Len(ds) : ~IsDigit(ds[k]) THEN None
        ELSE IF signed /\ s[1] = "-" THEN Some(0 - DecimalValue(ds))
        ELSE Some(DecimalValue(ds))

\* First index >= k of s whose character is not whitespace (Len(s)+1 if none).
RECURSIVE SkipSpaces(_, _)
SkipSpaces(s, k) ==
    IF k <= Len(s) /\ IsSpace(s[k]) THEN SkipSpaces(s, k + 1) ELSE k

\* First index >= k of s whose character is whitespace or ';'.
RECURSIVE SkipToken(_, _)
SkipToken(s, k) ==
    IF k <= Len(s) /\ ~IsSpace(s[k]) /\ s[k] # ";" THEN SkipToken(s, k + 1) ELSE k

\* Regex ^\s*([^\s;]+)\s*(?:;(.*))?$ on a segment: None when it does not match,
\* else capture group 0 (the whole match, which the anchors make the whole
\* segment) and capture group 1 (the token).
SIMPLE_CHARSET(set) ==
    LET a == SkipSpaces(set, 1)
        b == SkipToken(set, a)
        c == SkipSpaces(set, b)
    IN  IF b > a /\ ( c > Len(set)
                      \/ (set[c] = ";" /\ \A k \in (c + 1)..Len(set) : set[k] # "\n") )
        THEN Some([g0 |-> set, g1 |-> SubSeq(set, a, b - 1)])
        ELSE None

(***************************************************************************)
(* charsets.rs                                                             *)
(***************************************************************************)
\* Priority::default()
DefaultPriority == [i |-> None, o |-> -1, q |-> 0, s |-> 0]

\* The loop body of parse_charset: one parameter applied to the running q.
ParamQ(q, param) ==
    LET parts == split(trim(param), "=")
    IN  IF Len(parts) = 2 /\ parts[1] = <<"q">>
        THEN LET v == parse_isize(parts[2]) IN IF v = None THEN 1 ELSE v[1]
        ELSE q

RECURSIVE FoldParams(_, _)
FoldParams(q, params) ==
    IF params = <<>> THEN q
    ELSE FoldParams(ParamQ(q, params[1]), Tail(params))

\* parse_charset: the charset is capture 0, the parameters are read from
\* capture 1.
parse_charset(set, i) ==
    LET captures == SIMPLE_CHARSET(set)
    IN  IF captures = None THEN None
        ELSE Some([charset |-> captures[1].g0,
                   q       |-> FoldParams(1, split(captures[1].g1, ";")),
                   i       |-> i])

\* Mutant of ParseSegments: the position advances only past a segment that
\* parsed.
RECURSIVE ParseSegmentsSkipDropped(_, _)
ParseSegmentsSkipDropped(sets, i) ==
    IF sets = <<>> THEN <<>>
    ELSE LET parsed == parse_charset(sets[1], i)
         IN  parsed \o ParseSegmentsSkipDropped(Tail(sets), IF parsed = None THEN i ELSE i + 1)

\* The loop of parse_accept_charset: i counts every segment.
RECURSIVE ParseSegments(_, _)
ParseSegments(sets, i) ==
    IF sets = <<>> THEN <<>>
    ELSE parse_charset(sets[1], i) \o ParseSegments(Tail(sets), i + 1)

parse_accept_charset(a) == ParseSegments(split(a, ","), 0)

\* specify: None, or the Priority of the match.
specify(charset, spec, index) ==
    IF to_lowercase(spec.charset) = to_lowercase(charset)
    THEN Some([i |-> Some(index), o |-> spec.i, q |-> spec.q, s |-> 1])
    ELSE IF spec.charset # Star THEN None
    ELSE Some([i |-> Some(index), o |-> spec.i, q |-> spec.q, s |-> 0])

\* The replacement test of get_charset_priority.
Replaces(priority, spec) ==
    priority.s - spec.s < 0 \/ priority.q - spec.q < 0 \/ priority.o - spec.o < 0

RECURSIVE FoldPriority(_, _, _, _)
FoldPriority(priority, charset, accepted, index) ==
    IF accepted = <<>> THEN priority
    ELSE LET spec == specify(charset, accepted[1], index)
         IN  FoldPriority(IF spec # None /\ Replaces(priority, spec[1])
                          THEN spec[1] ELSE priority,
                          charset, Tail(accepted), index)

get_charset_priority(charset, accepted, index) ==
    FoldPriority(DefaultPriority, charset, accepted, index)

\* (x).cmp(&0) on a signed difference
Sign(x) == IF x < 0 THEN "Less" ELSE IF x > 0 THEN "Greater" ELSE "Equal"

\* x - y on usize, compared with 0: the difference underflows when x < y; with
\* overflow checks the program panics there, without them it wraps to a
\* positive value.
UsizeDiffSign(x, y) ==
    IF x < y THEN [ord |-> "Greater", underflow |-> TRUE]
    ELSE [ord |-> Sign(x - y), underflow |-> FALSE]

unwrap_or_0(opt) == IF opt = None THEN 0 ELSE opt[1]

\* compare_charsets: both differences are computed before either is looked at.
compare_charsets(a, b) ==
    LET q == Sign(b.q - a.q)
        i == UsizeDiffSign(a.i, b.i)
    IN  [ord |-> IF q # "Equal" THEN q ELSE i.ord, underflow |-> i.underflow]

\* compare_priority
compare_priority(a, b) ==
    LET q == Sign(b.q - a.q)
        s == Sign(b.s - a.s)
        o == Sign(a.o - b.o)
        i == UsizeDiffSign(unwrap_or_0(a.i), unwrap_or_0(b.i))
    IN  [ord |-> IF q # "Equal" THEN q
                 ELSE IF s # "Equal" THEN s
                 ELSE IF o # "Equal" THEN o
                 ELSE i.ord,
         underflow |-> i.underflow]

\* The comparator handed to sort_by, by name.
compare(by, a, b) ==
    IF by = "compare_charsets" THEN compare_charsets(a, b) ELSE compare_priority(a, b)

\* <[T]>::sort_by on a short slice is a stable insertion sort: each element in
\* turn is moved left past the elements it is_less than, is_less(t, e) being
\* compare(t, e) == Less with t the later element.  InsertTail gives the slice
\* with t inserted and whether any comparison underflowed.
RECURSIVE InsertTail(_, _, _, _)
InsertTail(sorted, t, k, by) ==
    IF k = 0 THEN [seq |-> <<t>> \o sorted, underflow |-> FALSE]
    ELSE LET c == compare(by, t, sorted[k])
         IN  IF c.ord = "Less"
             THEN LET r == InsertTail(sorted, t, k - 1, by)
                  IN  [seq |-> r.seq, underflow |-> r.underflow \/ c.underflow]
             ELSE [seq |-> SubSeq(sorted, 1, k) \o <<t>> \o SubSeq(sorted, k + 1, Len(sorted)),
                   underflow |-> c.underflow]

RECURSIVE sort_by(_, _)
sort_by(v, by) ==
    IF Len(v) <= 1 THEN [seq |-> v, underflow |-> FALSE]
    ELSE LET head == sort_by(SubSeq(v, 1, Len(v) - 1), by)
             r    == InsertTail(head.seq, v[Len(v)], Len(head.seq), by)
         IN  [seq |-> r.seq, underflow |-> head.underflow \/ r.underflow]

\* Iterator::filter(|spec| spec.q > 0)
RECURSIVE FilterQuality(_)
FilterQuality(v) ==
    IF v = <<>> THEN <<>>
    ELSE (IF v[1].q > 0 THEN <<v[1]>> ELSE <<>>) \o FilterQuality(Tail(v))

\* get_full_charset
get_full_charset(spec) == spec.charset

\* Iterator::position(|p| p == priority).unwrap(), zero-based
position(v, priority) == (CHOOSE k \in 1..Len(v) : v[k] = priority /\ \A j \in 1..(k - 1) : v[j] # priority) - 1

\* accept.unwrap_or("*")
DefaultAccept == Star
\* Mutant of unwrap_or_star: an absent header read as the empty header.
unwrap_or_empty(a) == IF a = None THEN <<>> ELSE a[1]

unwrap_or_star(a) == IF a = None THEN DefaultAccept ELSE a[1]

(***************************************************************************)
(* One call of negotiator::charset(accept, provided), step by step.        *)
(***************************************************************************)
Init ==
    /\ accept \in Headers
    /\ provided \in ProvidedLists
    /\ accepts = <<>>
    /\ priorities = <<>>
    /\ result = <<>>
    /\ pick = None
    /\ cmp = None
    /\ pc = "start"

\* preferred_charsets, lines 112-114
ParseAccept ==
    /\ pc = "start"
    /\ accepts' = parse_accept_charset(unwrap_or_star(accept))
    /\ pc' = IF Len(provided) = 0 THEN "preferences" ELSE "resolve"
    /\ UNCHANGED <<accept, provided, priorities, result, pick, cmp>>

\* preferred_charsets, lines 116-124: no provided list
SortPreferences ==
    /\ pc = "preferences"
    /\ LET sorted == sort_by(FilterQuality(accepts), "compare_charsets")
       IN  \E overflow_checks \in BOOLEAN :
             IF sorted.underflow /\ overflow_checks
             THEN /\ pc' = "panic"
                  /\ UNCHANGED result
             ELSE /\ result' = [k \in 1..Len(sorted.seq) |-> get_full_charset(sorted.seq[k])]
                  /\ pc' = "returned"
    /\ UNCHANGED <<accept, provided, accepts, priorities, pick, cmp>>

\* preferred_charsets, lines 126-133
ResolvePriorities ==
    /\ pc = "resolve"
    /\ priorities' = FilterQuality([k \in 1..Len(provided) |->
                                      get_charset_priority(provided[k], accepts, k - 1)])
    /\ pc' = "sort"
    /\ UNCHANGED <<accept, provided, accepts, result, pick, cmp>>

\* preferred_charsets, line 136
SortPriorities ==
    /\ pc = "sort"
    /\ LET sorted == sort_by(priorities, "compare_priority")
       IN  \E overflow_checks \in BOOLEAN :
             IF sorted.underflow /\ overflow_checks
             THEN /\ pc' = "panic"
                  /\ UNCHANGED priorities
             ELSE /\ priorities' = sorted.seq
                  /\ pc' = "map"
    /\ UNCHANGED <<accept, provided, accepts, result, pick, cmp>>

\* preferred_charsets, lines 137-142
MapProvided ==
    /\ pc = "map"
    /\ result' = [k \in 1..Len(priorities) |->
                    provided[position(priorities, priorities[k]) + 1]]
    /\ pc' = "returned"
    /\ UNCHANGED <<accept, provided, accepts, priorities, pick, cmp>>

\* lib.rs charset: the first of charsets(..), or None
Charset ==
    /\ pc = "returned"
    /\ pick' = IF Len(result) > 0 THEN Some(result[1]) ELSE None
    /\ pc' = "done"
    /\ UNCHANGED <<accept, provided, accepts, priorities, result, cmp>>

Next ==
    \/ ParseAccept
    \/ SortPreferences
    \/ ResolvePriorities
    \/ SortPriorities
    \/ MapProvided
    \/ Charset

Spec == Init /\ [][Next]_vars

\* preferred_charsets as one function of its two arguments (lines 110-143).
preferred_charsets(a, p) ==
    LET acc == parse_accept_charset(unwrap_or_star(a))
    IN  IF Len(p) = 0
        THEN LET filtered == sort_by(FilterQuality(acc), "compare_charsets").seq
             IN  [k \in 1..Len(filtered) |-> get_full_charset(filtered[k])]
        ELSE LET prio == sort_by(FilterQuality([k \in 1..Len(p) |->
                                     get_charset_priority(p[k], acc, k - 1)]),
                                 "compare_priority").seq
             IN  [k \in 1..Len(prio) |-> p[position(prio, prio[k]) + 1]]

(***************************************************************************)
(* sort_by leaves open which pairs it hands to the comparator and in which *)
(* argument order.  SpecCmp adds, to the steps above, a call of each       *)
(* comparator on any two elements of the slice that is about to be sorted. *)
(***************************************************************************)
CompareCharsetsCall ==
    /\ pc = "preferences"
    /\ LET filtered == FilterQuality(accepts)
       IN  \E j, k \in 1..Len(filtered) :
             LET c == compare_charsets(filtered[j], filtered[k])
             IN  /\ cmp' = Some([a |-> j, b |-> k, ord |-> c.ord])
                 /\ \E overflow_checks \in BOOLEAN :
                      pc' = IF c.underflow /\ overflow_checks THEN "panic" ELSE pc
    /\ UNCHANGED <<accept, provided, accepts, priorities, result, pick>>

ComparePriorityCall ==
    /\ pc = "sort"
    /\ \E j, k \in 1..Len(priorities) :
         LET c == compare_priority(priorities[j], priorities[k])
         IN  /\ cmp' = Some([a |-> j, b |-> k, ord |-> c.ord])
             /\ \E overflow_checks \in BOOLEAN :
                  pc' = IF c.underflow /\ overflow_checks THEN "panic" ELSE pc
    /\ UNCHANGED <<accept, provided, accepts, priorities, result, pick>>

NextCmp ==
    \/ Next
    \/ CompareCharsetsCall
    \/ ComparePriorityCall

SpecCmp == Init /\ [][NextCmp]_vars

(***************************************************************************)
(* Sanity of the model.                                                    *)
(***************************************************************************)
TypeOK ==
    /\ pc \in {"start", "preferences", "resolve", "sort", "map", "returned", "done", "panic"}
    /\ accept \in Headers
    /\ provided \in ProvidedLists

Returned == pc \in {"returned", "done"}

\* The steps compute the function.
StepsComputeFunction == Returned => result = preferred_charsets(accept, provided)

\* With the insertion sort of short slices no comparison underflows.
SortNeverUnderflows == pc # "panic"

(***************************************************************************)
(* The header as the specification reads it: the token of a segment, its   *)
(* parameter list (the text after the first ';'), and the quality written  *)
(* in it, in tenths (q=0.8 is 8, no q or an unreadable q is 10).           *)
(***************************************************************************)
HeaderText == unwrap_or_star(accept)

HeaderSegments == split(HeaderText, ",")

SegmentOf(e) == HeaderSegments[e.i + 1]

MatchesGrammar(seg) == SIMPLE_CHARSET(seg) # None

TokenOf(seg) == SIMPLE_CHARSET(seg)[1].g1

ParamsOf(seg) ==
    LET semis == {k \in 1..Len(seg) : seg[k] = ";"}
    IN  IF semis = {} THEN None
        ELSE LET first == CHOOSE k \in semis : \A j \in semis : k <= j
             IN  Some(SubSeq(seg, first + 1, Len(seg)))

AllDigits(s) == s # <<>> /\ \A k \in 1..Len(s) : IsDigit(s[k])

\* A decimal number with at most one fractional digit, in tenths.
ParseTenths(s) ==
    LET parts == split(s, ".")
    IN  IF Len(parts) = 1 /\ AllDigits(parts[1]) THEN Some(10 * DecimalValue(parts[1]))
        ELSE IF Len(parts) = 2 /\ AllDigits(parts[1]) /\ Len(parts[2]) = 1 /\ AllDigits(parts[2])
        THEN Some(10 * DecimalValue(parts[1]) + DecimalValue(parts[2]))
        ELSE None

RECURSIVE WrittenQFold(_, _)
WrittenQFold(q, params) ==
    IF params = <<>> THEN q
    ELSE LET parts == split(trim(params[1]), "=")
             v     == IF Len(parts) = 2 /\ parts[1] = <<"q">> THEN ParseTenths(parts[2]) ELSE None
         IN  WrittenQFold(IF Len(parts) = 2 /\ parts[1] = <<"q">>
                          THEN (IF v = None THEN 10 ELSE v[1]) ELSE q,
                          Tail(params))

WrittenQ(seg) ==
    IF ParamsOf(seg) = None THEN 10 ELSE WrittenQFold(10, split(ParamsOf(seg)[1], ";"))

\* The segments of the header that are preference entries for charset c.
ExactFor(c) ==
    {n \in 1..Len(HeaderSegments) :
        /\ MatchesGrammar(HeaderSegments[n])
        /\ to_lowercase(TokenOf(HeaderSegments[n])) = to_lowercase(c)}

WildcardFor(c) ==
    {n \in 1..Len(HeaderSegments) :
        /\ MatchesGrammar(HeaderSegments[n])
        /\ TokenOf(HeaderSegments[n]) = Star}

\* The key the resolver gives the candidate at (one-based) index j.
KeyOf(j) == get_charset_priority(provided[j], accepts, j - 1)

PositiveCandidates == {j \in 1..Len(provided) : KeyOf(j).q > 0}

(***************************************************************************)
(* The claims.                                                             *)
(***************************************************************************)

\* C1: nothing of effective quality 0 is returned.  With a provided list, every
\* returned string is a provided charset that some preference entry of the
\* header with a written quality above 0 matches (by its token, ignoring case,
\* or by "*"), and it is not one whose exact entries are all written with q=0
\* (UTF-8 under "*, UTF-8;q=0").  With no provided list, every returned string
\* is that of a parsed entry written with a quality above 0.
C1_NoZeroQualityReturned ==
    Returned =>
      IF provided # <<>>
      THEN \A k \in 1..Len(result) :
             /\ \E n \in ExactFor(result[k]) \cup WildcardFor(result[k]) :
                    WrittenQ(HeaderSegments[n]) > 0
             /\ ExactFor(result[k]) # {} =>
                    \E n \in ExactFor(result[k]) : WrittenQ(HeaderSegments[n]) > 0
      ELSE \A r \in 1..Len(result) :
             \E k \in 1..Len(accepts) :
                /\ result[r] = get_full_charset(accepts[k])
                /\ WrittenQ(SegmentOf(accepts[k])) > 0

\* C2: with a provided list, the returned strings are exactly the provided
\* charsets whose resolved quality is above 0, each returned once.
C2_ReturnedArePositiveCandidates ==
    (Returned /\ provided # <<>>) =>
      /\ Len(result) = Cardinality(PositiveCandidates)
      /\ {result[k] : k \in 1..Len(result)} = {provided[j] : j \in PositiveCandidates}

\* x sorts strictly before y under the final comparator: higher quality, then
\* higher specificity, then lower header position, then lower provided index.
Before(x, y) ==
    \/ x.q > y.q
    \/ x.q = y.q /\ x.s > y.s
    \/ x.q = y.q /\ x.s = y.s /\ x.o < y.o
    \/ x.q = y.q /\ x.s = y.s /\ x.o = y.o /\ x.i[1] < y.i[1]

\* C3: with a provided list, the returned strings are the provided elements of
\* some candidate indices listed in the order of the final comparator over
\* each candidate's resolved key.
C3_ReturnedInComparatorOrder ==
    (Returned /\ provided # <<>>) =>
      \E idx \in [1..Len(result) -> 1..Len(provided)] :
        /\ \A k \in 1..Len(result) : result[k] = provided[idx[k]]
        /\ \A j, k \in 1..Len(result) : j < k => Before(KeyOf(idx[j]), KeyOf(idx[k]))

\* entry f is ahead of entry e: higher quality, or equal quality and earlier.
Ahead(f, e) == f.q > e.q \/ (f.q = e.q /\ f.i < e.i)

PositiveEntries == {k \in 1..Len(accepts) : accepts[k].q > 0}

\* C4: with no provided list, the result is the bare tokens of the parsed
\* entries of quality above 0, by quality descending, then header position
\* ascending.
C4_ClientPreferencesReturned ==
    (Returned /\ provided = <<>>) =>
      /\ Len(result) = Cardinality(PositiveEntries)
      /\ \A k \in PositiveEntries :
           LET rank == Cardinality({j \in PositiveEntries : Ahead(accepts[j], accepts[k])})
           IN  result[rank + 1] = TokenOf(SegmentOf(accepts[k]))

LowerHeader(a) == IF a = None THEN None ELSE Some(to_lowercase(a[1]))

\* C5: with a provided list, every returned string is a provided element that
\* an entry of the header matches (ignoring case, or by "*"), spelled as
\* provided, and lower-casing the header's tokens does not change the result.
C5_CaseInsensitiveProvidedCasing ==
    (Returned /\ provided # <<>>) =>
      /\ \A k \in 1..Len(result) :
           \E j \in 1..Len(provided), e \in 1..Len(accepts) :
              /\ result[k] = provided[j]
              /\ specify(provided[j], accepts[e], j - 1) # None
      /\ result = preferred_charsets(LowerHeader(accept), provided)

\* C6: an absent header is parsed as the single entry "*" of quality 1, and for
\* an absent header or the header "*" a non-empty provided list is returned
\* as it is, every element, in the server's order.
C6_AbsentHeaderIsWildcard ==
    /\ (pc # "start" /\ accept = None) =>
          accepts = <<[charset |-> Star, q |-> 1, i |-> 0]>>
    /\ (provided # <<>> /\ accept \in {None, Some(Star)}) =>
          /\ pc # "panic"
          /\ Returned => result = provided

\* C6 witness: no header, a list whose second element is "*" itself (the one
\* candidate the sort moves to the front), returned as provided.
C6_Witness ==
    /\ pc = "done"
    /\ accept = None
    /\ provided = <<UTF8, Star>>
    /\ priorities[1].i = Some(1)
    /\ result = provided

\* C7: the entry get_charset_priority retains for a candidate is a maximum of
\* the final comparator (quality, specificity, earlier position) among the
\* entries that match the candidate.
C7_BestMatchRetained ==
    (pc # "start" /\ provided # <<>>) =>
      \A j \in 1..Len(provided), e \in 1..Len(accepts) :
        LET m == specify(provided[j], accepts[e], j - 1)
        IN  m # None => ~Before(m[1], KeyOf(j))

\* C8: no call ends in a fatal error: no comparison of the sort underflows,
\* whichever pair it is handed and in whichever argument order.
C8_NoFatalError == pc # "panic"

\* C9: the quality of every parsed entry is the value of the q parameter
\* written in its segment's parameter list, and 1 when there is none or it is
\* not a number.
C9_QualityFromParameterList ==
    pc # "start" =>
      \A k \in 1..Len(accepts) : 10 * accepts[k].q = WrittenQ(SegmentOf(accepts[k]))

\* C10: the positions of the parsed entries are the zero-based indices of the
\* header's segments that match the grammar, each once, in header order, and
\* each entry carries the token of the segment at its position.
C10_PositionInvariant ==
    pc # "start" =>
      /\ {accepts[k].i : k \in 1..Len(accepts)} =
            {n - 1 : n \in {m \in 1..Len(HeaderSegments) : MatchesGrammar(HeaderSegments[m])}}
      /\ \A j, k \in 1..Len(accepts) : j < k => accepts[j].i < accepts[k].i
      /\ \A k \in 1..Len(accepts) :
           TokenOf(SegmentOf(accepts[k])) = TokenOf(accepts[k].charset)

\* C10 witness: a parsed entry that follows a dropped segment, so that its
\* position is ahead of its place in the output.
C10_Witness ==
    /\ pc = "done"
    /\ \E k \in 1..Len(accepts) : accepts[k].i > k - 1

====
